---------------------------- MODULE Spec2Model ----------------------------
(***************************************************************************)
(* The Express back end of the storefront: the cart router and the order   *)
(* router of src/unnamed/part_002 and the user router of                   *)
(* src/backend/routes/users.js, each a set of synchronous handlers over    *)
(* one process-wide Map.  One action per route handler.  A handler runs to *)
(* completion (Node's single thread), so each is one atomic step.          *)
(*                                                                         *)
(* Values that arrive in a JSON body are JavaScript values; those the      *)
(* handlers compare or add are modelled as tagged records so that          *)
(* `quantity < 1`, the default parameter and `+` behave as they do in      *)
(* JavaScript on undefined, null and NaN.  Timestamps are integers         *)
(* (milliseconds): toISOString() keeps milliseconds and new Date(iso)      *)
(* reads them back, so an ISO string and its millisecond count name the    *)
(* same instant.                                                           *)
(*                                                                         *)
(* The React front end (CartContext.js, CartPage.js) runs in browser tabs. *)
(* Each of its async functions is cut at its await: one step issues the    *)
(* request, the server's handler runs as one step, and one step resumes    *)
(* the function with the response.  A request can also fail, which takes   *)
(* the function to its catch block.                                        *)
(***************************************************************************)
EXTENDS Integers, Sequences, FiniteSets, TLC

VARIABLES carts,    \* the cart Map: userId -> cart (DOMAIN = the keys)
          orders,   \* the order Map: userId -> list of orders
          nextId,   \* number of uuidv4() values drawn so far
          now,      \* the clock read by new Date() / Date.now()
          route,    \* the route of the last request handled
          res,      \* the response to it
          clients,  \* the browser tabs: where each is in its async function,
                    \* its request in flight, the response to it, and the
                    \* items of its CartContext state
          users     \* the user Map of the user router: id -> user

vars == <<carts, orders, nextId, now, route, res, clients, users>>

---------------------------------------------------------------------------
(* Bounds of the model *)

\* largest quantity a request body carries
MaxQty == 2
\* a line's quantity is not driven past this by repeated adds
MaxLineQty == 3
\* uuidv4() values available to the cart router
MaxCartIds == 2
\* clock values run over 0..MaxTime
MaxTime == 1
\* orders created over a run
MaxOrders == 1
\* orders created over a run that lists them
MaxListed == 2
\* users created over a run
MaxNewUsers == 2

Users == {"u1", "u2"}
Products == {"p1", "p2"}

---------------------------------------------------------------------------
(* JavaScript values *)

Num(n) == [type |-> "number", v |-> n]
Undefined == [type |-> "undefined", v |-> 0]
Null == [type |-> "null", v |-> 0]
NaN == [type |-> "NaN", v |-> 0]

\* ToNumber: undefined -> NaN, null -> +0
ToNumber(x) ==
    CASE x.type = "number" -> x
      [] x.type = "null" -> Num(0)
      [] OTHER -> NaN

\* a < b on two non-string values: false when either side is NaN
JsLess(a, b) ==
    /\ ToNumber(a).type = "number"
    /\ ToNumber(b).type = "number"
    /\ ToNumber(a).v < ToNumber(b).v

\* a + b on two non-string values
JsAdd(a, b) ==
    IF ToNumber(a).type = "number" /\ ToNumber(b).type = "number"
    THEN Num(ToNumber(a).v + ToNumber(b).v)
    ELSE NaN

\* !x for a productId / userId / status string: the empty string and a
\* missing field are falsy
Missing == ""
Falsy(s) == s = Missing

---------------------------------------------------------------------------
(* Cart router: helpers *)

\* an empty cart that counts one item
EmptyCartCountsOne == [items |-> <<>>, total |-> 0, itemCount |-> Num(1)]

\* { items: [], total: 0, itemCount: 0 }
EmptyCart == [items |-> <<>>, total |-> 0, itemCount |-> Num(0)]

\* cart.items.findIndex(item => item.productId === productId), 0-based, -1
FindIndexByProductId(items, productId) ==
    IF \E i \in 1..Len(items) : items[i].productId = productId
    THEN (CHOOSE i \in 1..Len(items) :
            /\ items[i].productId = productId
            /\ \A j \in 1..(i-1) : items[j].productId # productId) - 1
    ELSE -1

\* cart.items.findIndex(item => item.id === itemId), 0-based, -1
FindIndexById(items, itemId) ==
    IF \E i \in 1..Len(items) : items[i].id = itemId
    THEN (CHOOSE i \in 1..Len(items) :
            /\ items[i].id = itemId
            /\ \A j \in 1..(i-1) : items[j].id # itemId) - 1
    ELSE -1

RECURSIVE ReduceQuantity(_, _)
\* items.reduce((sum, item) => sum + item.quantity, sum0)
ReduceQuantity(items, sum) ==
    IF items = <<>> THEN sum
    ELSE ReduceQuantity(Tail(items), JsAdd(sum, Head(items).quantity))

ItemCountOf(items) == ReduceQuantity(items, Num(0))

\* items.splice(index, 1) with a 0-based index
Splice1(items, index) ==
    [i \in 1..(Len(items) - 1) |->
        IF i <= index THEN items[i] ELSE items[i + 1]]

\* carts.set(userId, cart)
MapSet(map, key, value) == (key :> value) @@ map

\* carts.clear() in the place of carts.delete(userId)
MapClear(map, key) == <<>>

\* carts.delete(userId)
MapDelete(map, key) == [k \in (DOMAIN map) \ {key} |-> map[k]]

Ok(data, message) ==
    [status |-> 200, success |-> TRUE, data |-> data, message |-> message]
Err(status, error) ==
    [status |-> status, success |-> FALSE, error |-> error]

---------------------------------------------------------------------------
(* Cart router: handlers *)

\* a get that stores the empty cart it answers with
GetCartCreates(userId) ==
    /\ route' = "GET /api/cart/:userId"
    /\ res' = Ok(IF userId \in DOMAIN carts THEN carts[userId] ELSE EmptyCart,
                 "")
    /\ carts' = IF userId \in DOMAIN carts THEN carts
                ELSE MapSet(carts, userId, EmptyCart)
    /\ UNCHANGED <<orders, nextId, now>>

\* router.get('/:userId')
GetCart(userId) ==
    /\ route' = "GET /api/cart/:userId"
    /\ res' = Ok(IF userId \in DOMAIN carts THEN carts[userId] ELSE EmptyCart,
                 "")
    /\ UNCHANGED <<carts, orders, nextId, now>>

\* last write wins: the request's quantity takes the place of the stored one
MergedQuantityOverwrites(old, quantity) == quantity

\* the stored quantity of an item the add request found in the cart
MergedQuantity(old, quantity) == JsAdd(old, quantity)

\* the add without its findIndex test: every add appends a line
AddedItemsAlwaysAppend(items, productId, quantity, id, addedAt) ==
    Append(items, [id |-> id, productId |-> productId,
                   quantity |-> quantity, addedAt |-> addedAt])

\* the cart after the add request has merged or appended its line
AddedItems(items, productId, quantity, id, addedAt) ==
    LET existingItemIndex == FindIndexByProductId(items, productId) IN
    IF existingItemIndex >= 0
    THEN [items EXCEPT ![existingItemIndex + 1].quantity =
              MergedQuantity(@, quantity)]
    ELSE Append(items, [id |-> id, productId |-> productId,
                        quantity |-> quantity, addedAt |-> addedAt])

\* const { productId, quantity = 1 } = req.body
DefaultQuantity(q) == IF q.type = "undefined" THEN Num(1) ELSE q

\* router.post('/:userId/items')
AddItem(userId, productId, q) ==
    /\ route' = "POST /api/cart/:userId/items"
    /\ LET quantity == DefaultQuantity(q) IN
       /\ IF Falsy(productId) \/ JsLess(quantity, Num(1))
          THEN /\ res' = Err(400, "Product ID and quantity (min 1) are required")
               /\ UNCHANGED <<carts, orders, nextId, now>>
          ELSE LET cart == IF userId \in DOMAIN carts THEN carts[userId]
                           ELSE EmptyCart
                   fresh == FindIndexByProductId(cart.items, productId) < 0
                   items == AddedItems(cart.items, productId, quantity,
                                       nextId + 1, now)
                   cart2 == [cart EXCEPT !.items = items,
                                         !.itemCount = ItemCountOf(items)]
               IN  /\ fresh => nextId < MaxCartIds
                   /\ \A i \in 1..Len(items) :
                         items[i].quantity.type = "number"
                            => items[i].quantity.v <= MaxLineQty
                   /\ nextId' = IF fresh THEN nextId + 1 ELSE nextId
                   /\ carts' = MapSet(carts, userId, cart2)
                   /\ res' = Ok(cart2, "Item added to cart successfully")
                   /\ UNCHANGED <<orders, now>>

\* the update handler with its quantity test moved after the assignment
UpdateItemValidatesLate(userId, itemId, quantity) ==
    /\ route' = "PUT /api/cart/:userId/items/:itemId"
    /\ IF userId \notin DOMAIN carts
       THEN /\ res' = Err(404, "Cart not found")
            /\ UNCHANGED <<carts, orders, nextId, now>>
       ELSE LET cart == carts[userId]
                itemIndex == FindIndexById(cart.items, itemId)
            IN  IF itemIndex = -1
                THEN /\ res' = Err(404, "Item not found in cart")
                     /\ UNCHANGED <<carts, orders, nextId, now>>
                ELSE LET items == [cart.items EXCEPT
                                     ![itemIndex + 1].quantity = quantity]
                         cart2 == [cart EXCEPT
                                     !.items = items,
                                     !.itemCount = ItemCountOf(items)]
                     IN  /\ carts' = MapSet(carts, userId, cart2)
                         /\ res' = IF JsLess(quantity, Num(1))
                                   THEN Err(400, "Quantity must be at least 1")
                                   ELSE Ok(cart2, "Cart updated successfully")
                         /\ UNCHANGED <<orders, nextId, now>>

\* router.put('/:userId/items/:itemId')
UpdateItem(userId, itemId, quantity) ==
    /\ route' = "PUT /api/cart/:userId/items/:itemId"
    /\ IF JsLess(quantity, Num(1))
       THEN /\ res' = Err(400, "Quantity must be at least 1")
            /\ UNCHANGED <<carts, orders, nextId, now>>
       ELSE IF userId \notin DOMAIN carts
       THEN /\ res' = Err(404, "Cart not found")
            /\ UNCHANGED <<carts, orders, nextId, now>>
       ELSE LET cart == carts[userId]
                itemIndex == FindIndexById(cart.items, itemId)
            IN  IF itemIndex = -1
                THEN /\ res' = Err(404, "Item not found in cart")
                     /\ UNCHANGED <<carts, orders, nextId, now>>
                ELSE LET items == [cart.items EXCEPT
                                     ![itemIndex + 1].quantity = quantity]
                         cart2 == [cart EXCEPT
                                     !.items = items,
                                     !.itemCount = ItemCountOf(items)]
                     IN  /\ carts' = MapSet(carts, userId, cart2)
                         /\ res' = Ok(cart2, "Cart updated successfully")
                         /\ UNCHANGED <<orders, nextId, now>>

\* the remove handler without its itemIndex === -1 test: splice(-1, 1)
\* takes the last line away
RemoveItemUnchecked(userId, itemId) ==
    /\ route' = "DELETE /api/cart/:userId/items/:itemId"
    /\ IF userId \notin DOMAIN carts
       THEN /\ res' = Err(404, "Cart not found")
            /\ UNCHANGED <<carts, orders, nextId, now>>
       ELSE LET cart == carts[userId]
                itemIndex == FindIndexById(cart.items, itemId)
                items == IF itemIndex = -1
                         THEN SubSeq(cart.items, 1, Len(cart.items) - 1)
                         ELSE Splice1(cart.items, itemIndex)
                cart2 == [cart EXCEPT !.items = items,
                                      !.itemCount = ItemCountOf(items)]
            IN  /\ carts' = MapSet(carts, userId, cart2)
                /\ res' = Ok(cart2, "Item removed from cart successfully")
                /\ UNCHANGED <<orders, nextId, now>>

\* router.delete('/:userId/items/:itemId')
RemoveItem(userId, itemId) ==
    /\ route' = "DELETE /api/cart/:userId/items/:itemId"
    /\ IF userId \notin DOMAIN carts
       THEN /\ res' = Err(404, "Cart not found")
            /\ UNCHANGED <<carts, orders, nextId, now>>
       ELSE LET cart == carts[userId]
                itemIndex == FindIndexById(cart.items, itemId)
            IN  IF itemIndex = -1
                THEN /\ res' = Err(404, "Item not found in cart")
                     /\ UNCHANGED <<carts, orders, nextId, now>>
                ELSE LET items == Splice1(cart.items, itemIndex)
                         cart2 == [cart EXCEPT
                                     !.items = items,
                                     !.itemCount = ItemCountOf(items)]
                     IN  /\ carts' = MapSet(carts, userId, cart2)
                         /\ res' = Ok(cart2,
                                      "Item removed from cart successfully")
                         /\ UNCHANGED <<orders, nextId, now>>

\* router.delete('/:userId')
ClearCart(userId) ==
    /\ route' = "DELETE /api/cart/:userId"
    /\ carts' = MapDelete(carts, userId)
    /\ res' = [status |-> 200, success |-> TRUE,
               message |-> "Cart cleared successfully"]
    /\ UNCHANGED <<orders, nextId, now>>

\* router.get('/:userId/summary'): the object literal names itemCount twice
\* and the later property wins
CartSummary(userId) ==
    /\ route' = "GET /api/cart/:userId/summary"
    /\ LET cart == IF userId \in DOMAIN carts THEN carts[userId] ELSE EmptyCart
       IN  /\ res' = Ok([total |-> cart.total, itemCount |-> Num(Len(cart.items))],
                        "")
           /\ UNCHANGED <<carts, orders, nextId, now>>

\* time passes between requests
Tick ==
    /\ now < MaxTime
    /\ now' = now + 1
    /\ UNCHANGED <<carts, orders, nextId, route, res, clients, users>>

---------------------------------------------------------------------------
(* Order router: helpers *)

\* the list with a seventh status let in
validStatusesWithRefunded ==
    <<"pending", "confirmed", "processing", "shipped", "delivered",
      "cancelled", "refunded">>

\* const validStatuses = [...]
validStatuses ==
    <<"pending", "confirmed", "processing", "shipped", "delivered",
      "cancelled">>

\* validStatuses.includes(status)
Includes(list, x) == \E i \in 1..Len(list) : list[i] = x

\* days * 24 * 60 * 60 * 1000
DaysMs(days) == days * 24 * 60 * 60 * 1000

\* amounts are counted in hundredths of a cent, so that 8% of a cent amount
\* is a whole number
Cents(c) == c * 100
FlatShipping == Cents(599)
FreeShippingOver == Cents(5000)

RECURSIVE ReduceTotal(_, _)
\* items.reduce((sum, item) => sum + (item.price * item.quantity), sum0)
ReduceTotal(items, sum) ==
    IF items = <<>> THEN sum
    ELSE ReduceTotal(Tail(items),
                     sum + Head(items).price * Head(items).quantity)

\* the tax rounded to whole cents
TaxOfRounded(total) == ((((total * 8) \div 100) + 50) \div 100) * 100

\* total * 0.08
TaxOf(total) == (total * 8) \div 100

\* free shipping from 50 on: total >= 50 ? 0 : 5.99
ShippingOfFromFifty(total) ==
    IF total >= FreeShippingOver THEN 0 ELSE FlatShipping

\* total > 50 ? 0 : 5.99
ShippingOf(total) == IF total > FreeShippingOver THEN 0 ELSE FlatShipping

\* every order of the Map, as <<userId, index>> places
OrderPlaces ==
    UNION {{<<u, i>> : i \in 1..Len(orders[u])} : u \in DOMAIN orders}

OrderAt(place) == orders[place[1]][place[2]]

\* the loop over orders.entries() with findIndex(o => o.id === orderId):
\* the places holding that id (order ids are distinct, so at most one)
FindOrder(orderId) == {pl \in OrderPlaces : OrderAt(pl).id = orderId}

TotalOrders ==
    LET RECURSIVE Count(_)
        Count(us) == IF us = {} THEN 0
                     ELSE LET u == CHOOSE x \in us : TRUE
                          IN  Len(orders[u]) + Count(us \ {u})
    IN  Count(DOMAIN orders)

RECURSIVE InsertNewestFirst(_, _)
\* o placed after every element at least as new as it
InsertNewestFirst(sorted, o) ==
    IF sorted = <<>> THEN <<o>>
    ELSE IF Head(sorted).createdAt >= o.createdAt
         THEN <<Head(sorted)>> \o InsertNewestFirst(Tail(sorted), o)
         ELSE <<o>> \o sorted

RECURSIVE SortNewestFirst(_)
\* userOrders.sort((a, b) => new Date(b.createdAt) - new Date(a.createdAt)):
\* a stable sort, newest first
SortNewestFirst(list) ==
    IF list = <<>> THEN <<>>
    ELSE InsertNewestFirst(SortNewestFirst(SubSeq(list, 1, Len(list) - 1)),
                           list[Len(list)])

Resp(status, data, message) ==
    [status |-> status, success |-> TRUE, data |-> data, message |-> message]

---------------------------------------------------------------------------
(* Order router: handlers *)

\* the order object built by router.post('/'); createdAt, updatedAt and
\* estimatedDelivery come from three successive readings of the clock
NewOrder(body, id, t1, t2, t3) ==
    LET total == ReduceTotal(body.items.list, 0)
        tax == TaxOf(total)
        shipping == ShippingOf(total)
        grandTotal == total + tax + shipping
    IN  [id |-> id,
         userId |-> body.userId,
         items |-> [i \in 1..Len(body.items.list) |->
                      [body.items.list[i] EXCEPT !.id = id + i]],
         shippingAddress |-> body.shippingAddress,
         paymentMethod |-> IF Falsy(body.paymentMethod) THEN "credit_card"
                           ELSE body.paymentMethod,
         subtotal |-> total,
         tax |-> tax,
         shipping |-> shipping,
         total |-> grandTotal,
         status |-> "pending",
         createdAt |-> t1,
         updatedAt |-> t2,
         estimatedDelivery |-> t3 + DaysMs(7)]

\* router.post('/'), in a run that stores at most `limit` orders
CreateOrderWithin(body, limit) ==
    /\ route' = "POST /api/orders"
    /\ IF Falsy(body.userId) \/ body.items.kind = "undefined"
             \/ Falsy(body.shippingAddress)
       THEN /\ res' = Err(400, "User ID, items, and shipping address are required")
            /\ UNCHANGED <<carts, orders, nextId, now>>
       ELSE IF body.items.kind # "array" \/ Len(body.items.list) = 0
       THEN /\ res' = Err(400, "Items must be a non-empty array")
            /\ UNCHANGED <<carts, orders, nextId, now>>
       ELSE IF \E i \in 1..Len(body.items.list) : body.items.list[i] = Null
       THEN \* item.price on null throws in the reduce; the catch answers
            /\ res' = Err(500, "Cannot read properties of null (reading 'price')")
            /\ UNCHANGED <<carts, orders, nextId, now>>
       ELSE /\ TotalOrders < limit
            /\ \E t2 \in now..MaxTime : \E t3 \in t2..MaxTime :
                 LET order == NewOrder(body, nextId + 1, now, t2, t3)
                     userOrders == IF body.userId \in DOMAIN orders
                                   THEN orders[body.userId] ELSE <<>>
                 IN  /\ orders' = MapSet(orders, body.userId,
                                         Append(userOrders, order))
                     /\ nextId' = nextId + 1 + Len(body.items.list)
                     /\ now' = t3
                     /\ res' = Resp(201, order, "Order created successfully")
            /\ UNCHANGED carts

\* router.post('/')
CreateOrder(body) == CreateOrderWithin(body, MaxOrders)

\* a listing that answers with the array as it is stored
GetUserOrdersUnsorted(userId) ==
    /\ route' = "GET /api/orders/user/:userId"
    /\ LET userOrders == IF userId \in DOMAIN orders
                         THEN orders[userId] ELSE <<>>
       IN  /\ orders' = orders
           /\ res' = [status |-> 200, success |-> TRUE, data |-> userOrders,
                      total |-> Len(userOrders)]
           /\ UNCHANGED <<carts, nextId, now>>

\* router.get('/user/:userId'); sort() reorders the stored array itself
GetUserOrders(userId) ==
    /\ route' = "GET /api/orders/user/:userId"
    /\ LET userOrders == IF userId \in DOMAIN orders
                         THEN SortNewestFirst(orders[userId]) ELSE <<>>
       IN  /\ orders' = IF userId \in DOMAIN orders
                        THEN [orders EXCEPT ![userId] = userOrders]
                        ELSE orders
           /\ res' = [status |-> 200, success |-> TRUE, data |-> userOrders,
                      total |-> Len(userOrders)]
           /\ UNCHANGED <<carts, nextId, now>>

\* the status the update handler stores for a valid request
NextStatus(current, status) == status

\* a status update that charges for shipping again when the order ships
StatusUpdatedRepriced(order, status, t1, t2) ==
    LET o1 == [order EXCEPT !.status = NextStatus(order.status, status),
                            !.updatedAt = t1]
    IN  IF status = "shipped"
        THEN [o1 EXCEPT !.estimatedDelivery = t2 + DaysMs(3),
                        !.shipping = FlatShipping,
                        !.total = order.subtotal + order.tax + FlatShipping]
        ELSE o1

\* foundOrder after the status-update handler's assignments; t1 and t2 are
\* its two readings of the clock
StatusUpdated(order, status, t1, t2) ==
    LET o1 == [order EXCEPT !.status = NextStatus(order.status, status),
                            !.updatedAt = t1]
    IN  IF status = "shipped"
        THEN [o1 EXCEPT !.estimatedDelivery = t2 + DaysMs(3)]
        ELSE o1

\* router.patch('/:orderId/status')
UpdateStatus(orderId, status) ==
    /\ route' = "PATCH /api/orders/:orderId/status"
    /\ IF Falsy(status)
       THEN /\ res' = Err(400, "Status is required")
            /\ UNCHANGED <<carts, orders, nextId, now>>
       ELSE IF ~Includes(validStatuses, status)
       THEN /\ res' = Err(400, "Invalid status. Must be one of: pending, confirmed, processing, shipped, delivered, cancelled")
            /\ UNCHANGED <<carts, orders, nextId, now>>
       ELSE IF FindOrder(orderId) = {}
       THEN /\ res' = Err(404, "Order not found")
            /\ UNCHANGED <<carts, orders, nextId, now>>
       ELSE LET pl == CHOOSE p \in FindOrder(orderId) : TRUE IN
            /\ \E t2 \in now..MaxTime :
                 LET foundOrder == StatusUpdated(OrderAt(pl), status, now, t2)
                 IN  /\ status # "shipped" => t2 = now
                     /\ orders' = [orders EXCEPT ![pl[1]][pl[2]] = foundOrder]
                     /\ now' = t2
                     /\ res' = Resp(200, foundOrder,
                                    "Order status updated successfully")
            /\ UNCHANGED <<carts, nextId>>

\* the guard with 'shipped' left out of its list
CannotCancelDeliveredOnly(status) == Includes(<<"delivered">>, status)

\* ['shipped', 'delivered'].includes(foundOrder.status)
CannotCancel(status) == Includes(<<"shipped", "delivered">>, status)

\* foundOrder after the cancel handler's assignments
Cancelled(order, reason, t) ==
    [cancellationReason |->
        IF Falsy(reason) THEN "Cancelled by user" ELSE reason]
    @@ [order EXCEPT !.status = "cancelled", !.updatedAt = t]

\* router.patch('/:orderId/cancel')
CancelOrder(orderId, reason) ==
    /\ route' = "PATCH /api/orders/:orderId/cancel"
    /\ IF FindOrder(orderId) = {}
       THEN /\ res' = Err(404, "Order not found")
            /\ UNCHANGED <<carts, orders, nextId, now>>
       ELSE LET pl == CHOOSE p \in FindOrder(orderId) : TRUE IN
            IF CannotCancel(OrderAt(pl).status)
            THEN /\ res' = Err(400, "Cannot cancel order that has already been shipped or delivered")
                 /\ UNCHANGED <<carts, orders, nextId, now>>
            ELSE LET foundOrder == Cancelled(OrderAt(pl), reason, now) IN
                 /\ orders' = [orders EXCEPT ![pl[1]][pl[2]] = foundOrder]
                 /\ res' = Resp(200, foundOrder, "Order cancelled successfully")
                 /\ UNCHANGED <<carts, nextId, now>>

\* Math.round(amount * 100) / 100, for an amount that is not negative
MathRoundCents(amount) == ((amount + 50) \div 100) * 100

\* totalRevenue after the loop over orders.entries()
TotalRevenue ==
    LET RECURSIVE Sum(_)
        Sum(places) == IF places = {} THEN 0
                       ELSE LET pl == CHOOSE x \in places : TRUE
                            IN  OrderAt(pl).total + Sum(places \ {pl})
    IN  Sum(OrderPlaces)

\* a count that leaves the cancelled orders out
StatusCountOpen(status) ==
    IF status = "cancelled" THEN 0
    ELSE Cardinality({pl \in OrderPlaces : OrderAt(pl).status = status})

\* statusCounts[status] after the loop: one ++ for every order of that
\* status
StatusCount(status) ==
    Cardinality({pl \in OrderPlaces : OrderAt(pl).status = status})

\* statusCounts: the six keys it starts with, and NaN under any other
\* status an order has (undefined++)
StatusCounts ==
    LET six == {validStatuses[i] : i \in 1..Len(validStatuses)}
        held == {OrderAt(pl).status : pl \in OrderPlaces}
    IN  [s \in six \cup held |->
            IF s \in six THEN Num(StatusCount(s)) ELSE NaN]

\* router.get('/stats/overview')
OrderStats ==
    /\ route' = "GET /api/orders/stats/overview"
    /\ res' = [status |-> 200, success |-> TRUE,
               data |->
                 [totalOrders |-> TotalOrders,
                  totalRevenue |-> MathRoundCents(TotalRevenue),
                  statusCounts |-> StatusCounts,
                  averageOrderValue |->
                     IF TotalOrders > 0
                     THEN ((2 * TotalRevenue + 100 * TotalOrders)
                             \div (200 * TotalOrders)) * 100
                     ELSE 0]]
    /\ UNCHANGED <<carts, orders, nextId, now>>

---------------------------------------------------------------------------
(* User router (src/backend/routes/users.js) *)

\* the two users the module stores when it is loaded
demoUsers ==
    [id \in {"demo-user-1", "demo-user-2"} |->
        IF id = "demo-user-1"
        THEN [id |-> id, email |-> "john.doe@example.com",
              username |-> "johndoe", firstName |-> "John",
              lastName |-> "Doe", preferences |-> [newsletter |-> TRUE],
              updatedAt |-> 0]
        ELSE [id |-> id, email |-> "jane.smith@example.com",
              username |-> "janesmith", firstName |-> "Jane",
              lastName |-> "Smith", preferences |-> [newsletter |-> FALSE],
              updatedAt |-> 0]]

\* the n-th value uuidv4() returns
UserUuid(n) == "uuid-" \o ToString(n)

\* Array.from(users.values())
UserValues == {users[k] : k \in DOMAIN users}

\* { ...base, ...over } on preference objects
SpreadPreferences(base, over) ==
    [k \in DOMAIN base \cup DOMAIN over |->
        IF k \in DOMAIN over THEN over[k] ELSE base[k]]

\* router.post('/')
CreateUser(body) ==
    /\ route' = "POST /api/users"
    /\ IF Falsy(body.email) \/ Falsy(body.username)
             \/ Falsy(body.firstName) \/ Falsy(body.lastName)
       THEN /\ res' = Err(400, "Email, username, first name, and last name are required")
            /\ UNCHANGED <<users, nextId, now>>
       ELSE IF \E u \in UserValues :
                  u.email = body.email \/ u.username = body.username
       THEN /\ res' = Err(409, "User with this email or username already exists")
            /\ UNCHANGED <<users, nextId, now>>
       ELSE /\ nextId < MaxNewUsers
            /\ LET userId == UserUuid(nextId + 1)
                    newUser ==
                      [id |-> userId, email |-> body.email,
                       username |-> body.username,
                       firstName |-> body.firstName,
                       lastName |-> body.lastName,
                       preferences |->
                          SpreadPreferences([newsletter |-> FALSE],
                                            body.preferences),
                       updatedAt |-> now]
               IN  /\ users' = MapSet(users, userId, newUser)
                   /\ nextId' = nextId + 1
                   /\ res' = Resp(201, newUser, "User created successfully")
            /\ UNCHANGED now

\* an update that never finds the username taken
UsernameExistsNever(userId, username) == FALSE

\* Array.from(users.values()).some(u => u.id !== userId && u.username ===
\* updateData.username)
UsernameExists(userId, username) ==
    \E u \in UserValues : u.id # userId /\ u.username = username

\* Array.from(users.values()).some(u => u.id !== userId && u.email ===
\* updateData.email)
EmailExists(userId, email) ==
    \E u \in UserValues : u.id # userId /\ u.email = email

\* router.put('/:userId'); of the allowed fields, firstName stands for all
UpdateUser(userId, updateData) ==
    /\ route' = "PUT /api/users/:userId"
    /\ IF userId \notin DOMAIN users
       THEN /\ res' = Err(404, "User not found")
            /\ UNCHANGED <<users, nextId, now>>
       ELSE LET user == users[userId]
                newEmail == /\ ~Falsy(updateData.email)
                            /\ updateData.email # user.email
                newUsername == /\ ~Falsy(updateData.username)
                               /\ updateData.username # user.username
            IN  IF newEmail /\ EmailExists(userId, updateData.email)
                THEN /\ res' = Err(409, "Email already in use by another user")
                     /\ UNCHANGED <<users, nextId, now>>
                ELSE IF newUsername
                          /\ UsernameExists(userId, updateData.username)
                THEN /\ res' = Err(409, "Username already in use by another user")
                     /\ UNCHANGED <<users, nextId, now>>
                ELSE LET updatedUser ==
                           [user EXCEPT
                              !.firstName =
                                 IF updateData.firstName # Missing
                                 THEN updateData.firstName ELSE @,
                              !.email =
                                 IF newEmail THEN updateData.email ELSE @,
                              !.username =
                                 IF newUsername THEN updateData.username
                                 ELSE @,
                              !.updatedAt = now]
                     IN  /\ users' = MapSet(users, userId, updatedUser)
                         /\ res' = Ok(updatedUser,
                                      "User updated successfully")
                         /\ UNCHANGED <<nextId, now>>

\* router.delete('/:userId')
DeleteUser(userId) ==
    /\ route' = "DELETE /api/users/:userId"
    /\ IF userId \notin DOMAIN users
       THEN /\ res' = Err(404, "User not found")
            /\ UNCHANGED <<users, nextId, now>>
       ELSE /\ users' = MapDelete(users, userId)
            /\ res' = [status |-> 200, success |-> TRUE,
                       message |-> "User deleted successfully"]
            /\ UNCHANGED <<nextId, now>>

\* router.patch('/:userId/preferences')
UpdatePreferences(userId, preferences) ==
    /\ route' = "PATCH /api/users/:userId/preferences"
    /\ IF userId \notin DOMAIN users
       THEN /\ res' = Err(404, "User not found")
            /\ UNCHANGED <<users, nextId, now>>
       ELSE LET user == users[userId]
                updatedUser ==
                   [user EXCEPT
                      !.preferences =
                         SpreadPreferences(user.preferences, preferences),
                      !.updatedAt = now]
            IN  /\ users' = MapSet(users, userId, updatedUser)
                /\ res' = Ok(updatedUser.preferences,
                             "Preferences updated successfully")
                /\ UNCHANGED <<nextId, now>>

---------------------------------------------------------------------------
(* Order request bodies *)

\* the items field of an order body: absent, not an array, or an array
NoItems == [kind |-> "undefined", list |-> <<>>]
NotAnArray == [kind |-> "string", list |-> <<>>]
Items(list) == [kind |-> "array", list |-> list]

\* const { userId, items, shippingAddress, paymentMethod } = req.body
Body(userId, items, shippingAddress, paymentMethod) ==
    [userId |-> userId, items |-> items,
     shippingAddress |-> shippingAddress, paymentMethod |-> paymentMethod]

---------------------------------------------------------------------------
(* Front end: CartContext and CartPage *)

\* the browser tabs open on the shop
Clients == {"c1", "c2"}

\* const [currentUser] = useState('demo-user-1')
currentUser == "u1"

\* let products = [...]: the details the product router serves, by id
catalog ==
    [p \in Products |->
        IF p = "p1" THEN [name |-> "n1", price |-> Cents(12999)]
        ELSE [name |-> "n2", price |-> Cents(2499)]]

NoRequest == [productId |-> Missing]
NoResponse == [status |-> 0, success |-> TRUE]

\* a tab as it opens: no items in its CartContext, no product details in
\* its CartPage
NewTab ==
    [pc |-> "idle", request |-> NoRequest, response |-> NoResponse,
     items |-> <<>>, products |-> <<>>]

\* a tab between two of its async functions, holding its CartContext items
Idle(tab, items) ==
    [tab EXCEPT !.pc = "idle", !.request = NoRequest,
                !.response = NoResponse, !.items = items]

\* a tab inside the async function fn, its request in flight
Awaiting(tab, fn, request) ==
    [tab EXCEPT !.pc = fn, !.request = request, !.response = NoResponse]

\* cartReducer, case 'ADD_ITEM'
ADD_ITEM(items, payload) ==
    LET existingItemIndex == FindIndexByProductId(items, payload.productId)
    IN  IF existingItemIndex >= 0
        THEN [items EXCEPT ![existingItemIndex + 1].quantity =
                  @ + payload.quantity]
        ELSE Append(items, payload)

RECURSIVE SumOver(_, _)
\* the sum of f[c] over the tabs c in cs
SumOver(f, cs) ==
    IF cs = {} THEN 0
    ELSE LET c == CHOOSE x \in cs : TRUE
         IN  f[c] + SumOver(f, cs \ {c})

\* the adds a tab makes in a run: with the one about to be made, the stored
\* quantity of productId and the quantities on their way to it stay within
\* MaxLineQty, and a new line still has an id to take
RoomFor(productId, quantity) ==
    LET items == IF currentUser \in DOMAIN carts
                 THEN carts[currentUser].items ELSE <<>>
        i == FindIndexByProductId(items, productId)
        stored == IF i < 0 THEN 0 ELSE items[i + 1].quantity.v
        coming == [c \in Clients |->
                     IF /\ clients[c].pc = "addToCart"
                        /\ clients[c].response = NoResponse
                        /\ clients[c].request.productId = productId
                     THEN clients[c].request.quantity ELSE 0]
        drawing == [c \in Clients |->
                      IF /\ clients[c].pc = "addToCart"
                         /\ clients[c].response = NoResponse
                      THEN 1 ELSE 0]
    IN  /\ stored + SumOver(coming, Clients) + quantity <= MaxLineQty
        /\ i < 0 => nextId + SumOver(drawing, Clients) < MaxCartIds

\* addToCart up to its await: axios.post is issued
addToCart(c, productId, quantity) ==
    /\ clients[c].pc = "idle"
    /\ clients' = [clients EXCEPT ![c] =
          Awaiting(@, "addToCart",
                   [productId |-> productId, quantity |-> quantity])]
    /\ UNCHANGED <<carts, orders, nextId, now, route, res, users>>

\* the server handles the add request of tab c
ServeAddItem(c) ==
    /\ clients[c].pc = "addToCart"
    /\ clients[c].response = NoResponse
    /\ AddItem(currentUser, clients[c].request.productId,
               Num(clients[c].request.quantity))
    /\ clients' = [clients EXCEPT ![c].response = res']
    /\ UNCHANGED users

\* addToCart from its await on: dispatch ADD_ITEM on success; a 400 makes
\* axios throw, and the catch block dispatches SET_ERROR only
addToCartDone(c) ==
    /\ clients[c].pc = "addToCart"
    /\ clients[c].response # NoResponse
    /\ clients' = [clients EXCEPT ![c] =
          Idle(@, IF @.response.success
                  THEN ADD_ITEM(@.items, @.request)
                  ELSE @.items)]
    /\ UNCHANGED <<carts, orders, nextId, now, route, res, users>>

\* item.id of a line of the CartContext items: a line that ADD_ITEM made
\* has none (undefined, written 0: the ids the server gives start at 1)
IdOf(item) == IF "id" \in DOMAIN item THEN item.id ELSE 0

\* cartReducer, case 'UPDATE_ITEM_QUANTITY': the items
UPDATE_ITEM_QUANTITY(items, payload) ==
    [i \in 1..Len(items) |->
        IF IdOf(items[i]) = payload.itemId
        THEN [items[i] EXCEPT !.quantity = payload.quantity]
        ELSE items[i]]

\* cartReducer, case 'REMOVE_ITEM': the items
REMOVE_ITEM(items, itemId) ==
    SelectSeq(items, LAMBDA item : IdOf(item) # itemId)

\* cartReducer, case 'CLEAR_CART': the items
CLEAR_CART == <<>>

\* the state useReducer starts from, kept with the tab (total is never
\* more than 0 on these paths; loading and error are left out)
initialState == NewTab @@ [total |-> 0, itemCount |-> 0]

\* a removal that counts one unit for the removed line
RemovedUnit(items, itemId) ==
    IF \E i \in 1..Len(items) : IdOf(items[i]) = itemId THEN 1 ELSE 0

\* itemToRemove?.quantity || 0, where itemToRemove = state.items.find(item
\* => item.id === action.payload)
RemovedQuantity(items, itemId) ==
    IF \E i \in 1..Len(items) : IdOf(items[i]) = itemId
    THEN LET first == CHOOSE i \in 1..Len(items) :
                         /\ IdOf(items[i]) = itemId
                         /\ \A j \in 1..(i - 1) : IdOf(items[j]) # itemId
         IN  items[first].quantity
    ELSE 0

RECURSIVE ReduceClientQuantity(_, _)
\* updatedItems.reduce((sum, item) => sum + item.quantity, sum0)
ReduceClientQuantity(items, sum) ==
    IF items = <<>> THEN sum
    ELSE ReduceClientQuantity(Tail(items), sum + Head(items).quantity)

\* cartReducer, for the four actions that change the items
cartReducer(state, action) ==
    CASE action.type = "ADD_ITEM" ->
           [state EXCEPT
              !.items = ADD_ITEM(state.items, action.payload),
              !.itemCount = state.itemCount + action.payload.quantity]
      [] action.type = "UPDATE_ITEM_QUANTITY" ->
           LET updatedItems == UPDATE_ITEM_QUANTITY(state.items, action.payload)
           IN  [state EXCEPT
                  !.items = updatedItems,
                  !.itemCount = ReduceClientQuantity(updatedItems, 0)]
      [] action.type = "REMOVE_ITEM" ->
           [state EXCEPT
              !.items = REMOVE_ITEM(state.items, action.payload),
              !.itemCount = state.itemCount
                              - RemovedQuantity(state.items, action.payload)]
      [] action.type = "CLEAR_CART" ->
           [state EXCEPT !.items = CLEAR_CART, !.total = 0, !.itemCount = 0]

\* dispatch(action) in tab c
dispatch(c, action) ==
    /\ clients' = [clients EXCEPT ![c] = cartReducer(@, action)]
    /\ UNCHANGED <<carts, orders, nextId, now, route, res, users>>

\* updateItemQuantity up to its await: axios.put is issued
updateItemQuantity(c, itemId, quantity) ==
    /\ clients[c].pc = "idle"
    /\ clients' = [clients EXCEPT ![c] =
          Awaiting(@, "updateItemQuantity",
                   [itemId |-> itemId, quantity |-> quantity])]
    /\ UNCHANGED <<carts, orders, nextId, now, route, res, users>>

\* the server handles the update request of tab c
ServeUpdateItem(c) ==
    /\ clients[c].pc = "updateItemQuantity"
    /\ clients[c].response = NoResponse
    /\ UpdateItem(currentUser, clients[c].request.itemId,
                  Num(clients[c].request.quantity))
    /\ clients' = [clients EXCEPT ![c].response = res']
    /\ UNCHANGED users

\* updateItemQuantity from its await on: dispatch UPDATE_ITEM_QUANTITY on
\* success; a 400 or 404 makes axios throw, and the catch block dispatches
\* SET_ERROR only
updateItemQuantityDone(c) ==
    /\ clients[c].pc = "updateItemQuantity"
    /\ clients[c].response # NoResponse
    /\ clients' = [clients EXCEPT ![c] =
          Idle(@, IF @.response.success
                  THEN UPDATE_ITEM_QUANTITY(@.items, @.request)
                  ELSE @.items)]
    /\ UNCHANGED <<carts, orders, nextId, now, route, res, users>>

\* removeFromCart up to its await: axios.delete is issued
removeFromCart(c, itemId) ==
    /\ clients[c].pc = "idle"
    /\ clients' = [clients EXCEPT ![c] =
          Awaiting(@, "removeFromCart", [itemId |-> itemId])]
    /\ UNCHANGED <<carts, orders, nextId, now, route, res, users>>

\* the server handles the remove request of tab c
ServeRemoveItem(c) ==
    /\ clients[c].pc = "removeFromCart"
    /\ clients[c].response = NoResponse
    /\ RemoveItem(currentUser, clients[c].request.itemId)
    /\ clients' = [clients EXCEPT ![c].response = res']
    /\ UNCHANGED users

\* removeFromCart from its await on: dispatch REMOVE_ITEM on success; a 404
\* makes axios throw, and the catch block dispatches SET_ERROR only
removeFromCartDone(c) ==
    /\ clients[c].pc = "removeFromCart"
    /\ clients[c].response # NoResponse
    /\ clients' = [clients EXCEPT ![c] =
          Idle(@, IF @.response.success
                  THEN REMOVE_ITEM(@.items, @.request.itemId)
                  ELSE @.items)]
    /\ UNCHANGED <<carts, orders, nextId, now, route, res, users>>

\* clearCart up to its await, called from the cart page's clear button:
\* axios.delete is issued
clearCart(c) ==
    /\ clients[c].pc = "idle"
    /\ clients' = [clients EXCEPT ![c] = Awaiting(@, "clearCart", NoRequest)]
    /\ UNCHANGED <<carts, orders, nextId, now, route, res, users>>

\* the productIds of the lines of a tab's items
ProductIdsOf(items) == {items[i].productId : i \in 1..Len(items)}

\* fetchProductDetails: the effect that follows a change of items asks the
\* product router for each productId and keeps the details of those that
\* were answered
fetchProductDetails(c) ==
    /\ clients[c].items # <<>>
    /\ \E answered \in SUBSET ProductIdsOf(clients[c].items) :
          clients' = [clients EXCEPT ![c].products =
                         [p \in answered |-> catalog[p]]]
    /\ UNCHANGED <<carts, orders, nextId, now, route, res, users>>

\* a lookup that charges the flat fee for a product it cannot find
DetailsOfOrFee(products, productId) ==
    IF productId \in DOMAIN products
    THEN [name |-> IF products[productId].name = Missing
                   THEN "Unknown Product" ELSE products[productId].name,
          price |-> products[productId].price]
    ELSE [name |-> "Unknown Product", price |-> FlatShipping]

\* product?.name || 'Unknown Product' and product?.price || 0, where
\* product = products[item.productId]
DetailsOf(products, productId) ==
    IF productId \in DOMAIN products
    THEN [name |-> IF products[productId].name = Missing
                   THEN "Unknown Product" ELSE products[productId].name,
          price |-> products[productId].price]
    ELSE [name |-> "Unknown Product", price |-> 0]

RECURSIVE SubtotalOf(_, _, _)
\* items.reduce((total, item) => total + (product?.price || 0) *
\* item.quantity, total0)
SubtotalOf(items, products, total) ==
    IF items = <<>> THEN total
    ELSE SubtotalOf(Tail(items), products,
                    total + DetailsOf(products, Head(items).productId).price
                              * Head(items).quantity)

\* the order summary of a tab's cart page
calculateSubtotal(tab) == SubtotalOf(tab.items, tab.products, 0)
calculateTax(tab) == (calculateSubtotal(tab) * 8) \div 100
calculateShipping(tab) ==
    IF calculateSubtotal(tab) > FreeShippingOver THEN 0 ELSE FlatShipping
calculateTotal(tab) ==
    calculateSubtotal(tab) + calculateTax(tab) + calculateShipping(tab)

\* const orderItems = items.map(...): item.id is undefined for a line that
\* ADD_ITEM made, and the server gives every line a new id
orderItems(tab) ==
    [i \in 1..Len(tab.items) |->
        [id |-> 0, productId |-> tab.items[i].productId,
         name |-> DetailsOf(tab.products, tab.items[i].productId).name,
         price |-> DetailsOf(tab.products, tab.items[i].productId).price,
         quantity |-> tab.items[i].quantity]]

\* handleCheckout up to its first await: the button is disabled while the
\* cart is empty
handleCheckout(c) ==
    /\ clients[c].pc = "idle"
    /\ clients[c].items # <<>>
    /\ clients' = [clients EXCEPT ![c] =
          Awaiting(@, "handleCheckout",
                   Body(currentUser, Items(orderItems(@)),
                        "1 Main St", "credit_card"))]
    /\ UNCHANGED <<carts, orders, nextId, now, route, res, users>>

\* the server handles the order request of tab c
ServeCreateOrder(c) ==
    /\ clients[c].pc = "handleCheckout"
    /\ clients[c].response = NoResponse
    /\ CreateOrder(clients[c].request)
    /\ clients' = [clients EXCEPT ![c].response = res']
    /\ UNCHANGED users

\* handleCheckout from its first await on: on success it calls clearCart,
\* which issues axios.delete
handleCheckoutOrdered(c) ==
    /\ clients[c].pc = "handleCheckout"
    /\ clients[c].response # NoResponse
    /\ clients' = [clients EXCEPT ![c] =
          IF @.response.success
          THEN Awaiting(@, "clearCart", NoRequest)
          ELSE Idle(@, @.items)]
    /\ UNCHANGED <<carts, orders, nextId, now, route, res, users>>

\* the server handles the clear request of tab c
ServeClearCart(c) ==
    /\ clients[c].pc = "clearCart"
    /\ clients[c].response = NoResponse
    /\ ClearCart(currentUser)
    /\ clients' = [clients EXCEPT ![c].response = res']
    /\ UNCHANGED users

\* clearCart from its await on: dispatch CLEAR_CART, then handleCheckout
\* closes the dialog
clearCartDone(c) ==
    /\ clients[c].pc = "clearCart"
    /\ clients[c].response # NoResponse
    /\ clients' = [clients EXCEPT ![c] = Idle(@, <<>>)]
    /\ UNCHANGED <<carts, orders, nextId, now, route, res, users>>

\* the awaited request is rejected (the network fails before or after the
\* server has handled it): every catch block leaves the items as they are,
\* and clearCart's catch lets handleCheckout run on to its end
RequestFails(c) ==
    /\ clients[c].pc # "idle"
    /\ clients' = [clients EXCEPT ![c] = Idle(@, @.items)]
    /\ UNCHANGED <<carts, orders, nextId, now, route, res, users>>

---------------------------------------------------------------------------
(* Requests *)

\* the quantity field of a body: absent, null or a number
QuantityInputs == {Undefined, Null} \cup {Num(n) : n \in 0..MaxQty}
ProductIdInputs == Products \cup {Missing}
ItemIdInputs == 1..MaxCartIds

Init ==
    /\ carts = <<>>
    /\ orders = <<>>
    /\ nextId = 0
    /\ now = 0
    /\ route = ""
    /\ res = NoResponse
    /\ clients = [c \in Clients |-> NewTab]
    /\ users = demoUsers

\* requests made to the cart router by a caller other than the tabs
CartNext ==
    \/ \E u \in Users : GetCart(u) /\ UNCHANGED <<clients, users>>
    \/ \E u \in Users, p \in ProductIdInputs, q \in QuantityInputs :
          AddItem(u, p, q) /\ UNCHANGED <<clients, users>>
    \/ \E u \in Users, i \in ItemIdInputs, q \in QuantityInputs :
          UpdateItem(u, i, q) /\ UNCHANGED <<clients, users>>
    \/ \E u \in Users, i \in ItemIdInputs :
          RemoveItem(u, i) /\ UNCHANGED <<clients, users>>
    \/ \E u \in Users : ClearCart(u) /\ UNCHANGED <<clients, users>>
    \/ \E u \in Users : CartSummary(u) /\ UNCHANGED <<clients, users>>

CartSpec == Init /\ [][CartNext]_vars

SmallItems ==
    Items(<<[id |-> 0, productId |-> "p1", name |-> "n1",
             price |-> Cents(1999), quantity |-> 1]>>)
LargeItems ==
    Items(<<[id |-> 0, productId |-> "p1", name |-> "n1",
             price |-> Cents(12999), quantity |-> 2]>>)

\* two well-formed bodies, one body for each way of being rejected, and one
\* whose items array holds null
OrderBodies ==
    {Body("u1", SmallItems, "1 Main St", Missing),
     Body("u2", LargeItems, "1 Main St", "paypal"),
     Body(Missing, SmallItems, "1 Main St", Missing),
     Body("u1", NoItems, "1 Main St", Missing),
     Body("u1", SmallItems, Missing, Missing),
     Body("u1", NotAnArray, "1 Main St", Missing),
     Body("u1", Items(<<>>), "1 Main St", Missing),
     Body("u1", Items(<<Null>>), "1 Main St", Missing)}

\* ids of the stored orders, and one id that no order has
OrderIdInputs == {OrderAt(pl).id : pl \in OrderPlaces} \cup {0}
StatusInputs == {Missing, "refunded"} \cup
                {validStatuses[i] : i \in 1..Len(validStatuses)}
\* status requests: every status for every stored order, and for the id
\* that no order has one status of each kind (missing, unknown, known)
StatusRequests ==
    {rq \in OrderIdInputs \X StatusInputs :
        rq[1] = 0 => rq[2] \in {Missing, "refunded", "shipped"}}
\* the reason field of a cancel body, which is optional
ReasonInputs == {Missing}

\* requests made to the order router by a caller other than the tabs
OrderNext ==
    \/ \E b \in OrderBodies : CreateOrder(b) /\ UNCHANGED <<clients, users>>
    \/ \E u \in Users : GetUserOrders(u) /\ UNCHANGED <<clients, users>>
    \/ \E rq \in StatusRequests :
          UpdateStatus(rq[1], rq[2]) /\ UNCHANGED <<clients, users>>
    \/ \E id \in OrderIdInputs, r \in ReasonInputs :
          CancelOrder(id, r) /\ UNCHANGED <<clients, users>>

OrderSpec == Init /\ [][OrderNext]_vars

\* the well-formed bodies, and the status asked for, in a run that lists
\* the orders
ListedBodies ==
    {Body("u1", SmallItems, "1 Main St", Missing),
     Body("u2", LargeItems, "1 Main St", "paypal")}
ListedStatuses == {"shipped"}

\* orders created, updated, cancelled and listed
ListingNext ==
    \/ \E b \in ListedBodies :
          CreateOrderWithin(b, MaxListed) /\ UNCHANGED <<clients, users>>
    \/ \E u \in Users : GetUserOrders(u) /\ UNCHANGED <<clients, users>>
    \/ \E id \in OrderIdInputs, s \in ListedStatuses :
          UpdateStatus(id, s) /\ UNCHANGED <<clients, users>>
    \/ \E id \in OrderIdInputs, r \in ReasonInputs :
          CancelOrder(id, r) /\ UNCHANGED <<clients, users>>

ListingSpec == Init /\ [][ListingNext]_vars

\* the statuses asked for in a run that reads the statistics: one of the
\* six, one that is not, and none
StatsStatuses == {"delivered", "refunded", Missing}

\* orders created, updated and cancelled, and the statistics read
StatsNext ==
    \/ \E b \in ListedBodies :
          CreateOrderWithin(b, MaxListed) /\ UNCHANGED <<clients, users>>
    \/ \E id \in OrderIdInputs, s \in StatsStatuses :
          UpdateStatus(id, s) /\ UNCHANGED <<clients, users>>
    \/ \E id \in OrderIdInputs, r \in ReasonInputs :
          CancelOrder(id, r) /\ UNCHANGED <<clients, users>>
    \/ OrderStats /\ UNCHANGED <<clients, users>>

StatsSpec == Init /\ [][StatsNext]_vars

\* two tabs of one user adding to the cart, their requests overlapping
RaceNext ==
    \/ \E c \in Clients, p \in Products, q \in 1..MaxQty :
          RoomFor(p, q) /\ addToCart(c, p, q)
    \/ \E c \in Clients : ServeAddItem(c)
    \/ \E c \in Clients : addToCartDone(c)

\* the server handles every request that reaches it, and a function whose
\* awaited response has arrived is resumed
RaceSpec ==
    /\ Init
    /\ [][RaceNext]_vars
    /\ \A c \in Clients :
          WF_vars(ServeAddItem(c)) /\ WF_vars(addToCartDone(c))

\* the tab that goes through the checkout
Buyer == "c1"

\* one tab adding to the cart, checking out and clearing the cart, with
\* requests that can fail
CheckoutNext ==
    \/ \E p \in Products, q \in 1..MaxQty :
          RoomFor(p, q) /\ addToCart(Buyer, p, q)
    \/ ServeAddItem(Buyer)
    \/ addToCartDone(Buyer)
    \/ fetchProductDetails(Buyer)
    \/ TotalOrders < MaxOrders /\ handleCheckout(Buyer)
    \/ ServeCreateOrder(Buyer)
    \/ handleCheckoutOrdered(Buyer)
    \/ ServeClearCart(Buyer)
    \/ clearCartDone(Buyer)
    \/ RequestFails(Buyer)

\* as in RaceSpec: requests that arrive are handled and arrived responses
\* resume the function; nothing obliges a request to arrive
CheckoutSpec ==
    /\ Init
    /\ [][CheckoutNext]_vars
    /\ WF_vars(ServeAddItem(Buyer)) /\ WF_vars(addToCartDone(Buyer))
    /\ WF_vars(ServeCreateOrder(Buyer))
    /\ WF_vars(handleCheckoutOrdered(Buyer))
    /\ WF_vars(ServeClearCart(Buyer)) /\ WF_vars(clearCartDone(Buyer))

\* the itemId a caller of the CartContext passes: the item.id of a line of
\* the tab, or an id a stored line may have
TabItemIds(c) ==
    {IdOf(clients[c].items[i]) : i \in 1..Len(clients[c].items)}
        \cup ItemIdInputs

\* the adds a tab makes in a run keep the quantity of its own line of
\* productId within MaxLineQty
TabRoomFor(c, productId, quantity) ==
    LET i == FindIndexByProductId(clients[c].items, productId)
        held == IF i < 0 THEN 0 ELSE clients[c].items[i + 1].quantity
    IN  held + quantity <= MaxLineQty

\* one tab, in step with the server when it opens, calling the CartContext
\* functions; every response arrives
SyncNext ==
    \/ \E p \in Products, q \in 1..MaxQty :
          RoomFor(p, q) /\ TabRoomFor(Buyer, p, q) /\ addToCart(Buyer, p, q)
    \/ ServeAddItem(Buyer)
    \/ addToCartDone(Buyer)
    \/ \E i \in TabItemIds(Buyer), q \in 1..MaxQty :
          updateItemQuantity(Buyer, i, q)
    \/ ServeUpdateItem(Buyer)
    \/ updateItemQuantityDone(Buyer)
    \/ \E i \in TabItemIds(Buyer) : removeFromCart(Buyer, i)
    \/ ServeRemoveItem(Buyer)
    \/ removeFromCartDone(Buyer)
    \/ clearCart(Buyer)
    \/ ServeClearCart(Buyer)
    \/ clearCartDone(Buyer)

SyncSpec == Init /\ [][SyncNext]_vars

\* the id the server gives the line of a product, in a run of the reducer
LineId(productId) == IF productId = "p1" THEN 1 ELSE 2

\* ADD_ITEM payloads: the pair addToCart dispatches, or a line that has
\* the id of the stored line of its product
AddPayloads ==
    {[productId |-> p, quantity |-> q] : p \in Products, q \in 1..MaxQty}
    \cup {[id |-> LineId(p), productId |-> p, quantity |-> q] :
             p \in Products, q \in 1..MaxQty}

\* the reducer's state before anything was dispatched
ReducerInit ==
    /\ carts = <<>>
    /\ orders = <<>>
    /\ nextId = 0
    /\ now = 0
    /\ route = ""
    /\ res = NoResponse
    /\ clients = [c \in Clients |-> initialState]
    /\ users = demoUsers

\* the actions dispatched to the reducer of each tab; the itemId of an
\* update or a removal is an id the server has given, in the list or not
ReducerNext ==
    \/ \E c \in Clients, payload \in AddPayloads :
          /\ TabRoomFor(c, payload.productId, payload.quantity)
          /\ dispatch(c, [type |-> "ADD_ITEM", payload |-> payload])
    \/ \E c \in Clients, i \in ItemIdInputs, q \in 1..MaxQty :
          dispatch(c, [type |-> "UPDATE_ITEM_QUANTITY",
                       payload |-> [itemId |-> i, quantity |-> q]])
    \/ \E c \in Clients, i \in ItemIdInputs :
          dispatch(c, [type |-> "REMOVE_ITEM", payload |-> i])
    \/ \E c \in Clients : dispatch(c, [type |-> "CLEAR_CART"])

ReducerSpec == ReducerInit /\ [][ReducerNext]_vars

\* prices on either side of the free-shipping threshold, on it, and zero
PriceInputs == {0, Cents(2500), Cents(5000), Cents(5001), Cents(12999)}

\* well-formed order bodies of one line, over the prices and quantities
PricedBodies ==
    {Body("u2",
          Items(<<[id |-> 0, productId |-> "p1", name |-> "n1",
                   price |-> price, quantity |-> q]>>),
          "1 Main St", Missing) : price \in PriceInputs, q \in 1..MaxQty}

\* the lines a tab can hold: one line per product, quantities that adds
\* can have brought about
LineInputs ==
    {[productId |-> p, quantity |-> q] : p \in Products, q \in 1..MaxLineQty}
TabItemInputs ==
    {<<>>} \cup {<<l>> : l \in LineInputs}
           \cup {<<l1, l2>> : l1 \in {l \in LineInputs : l.productId = "p1"},
                              l2 \in {l \in LineInputs : l.productId = "p2"}}

\* the calculators' inputs: the Buyer's cart page holds some items and
\* the details of some of their products
PricingInit ==
    /\ carts = <<>>
    /\ orders = <<>>
    /\ nextId = 0
    /\ now = 0
    /\ route = ""
    /\ res = NoResponse
    /\ users = demoUsers
    /\ \E items \in TabItemInputs :
       \E answered \in SUBSET ProductIdsOf(items) :
          clients = [c \in Clients |->
                       IF c = Buyer
                       THEN [NewTab EXCEPT
                               !.items = items,
                               !.products = [p \in answered |-> catalog[p]]]
                       ELSE NewTab]

\* the order router's calculator at work on prices of all kinds, beside a
\* cart page that sums up what it holds
PricingNext ==
    \E b \in PricedBodies : CreateOrder(b) /\ UNCHANGED <<clients, users>>

PricingSpec == PricingInit /\ [][PricingNext]_vars

\* the cart page, holding some items and some product details, goes
\* through the checkout
SubtotalNext ==
    \/ fetchProductDetails(Buyer)
    \/ TotalOrders < MaxOrders /\ handleCheckout(Buyer)
    \/ ServeCreateOrder(Buyer)
    \/ handleCheckoutOrdered(Buyer)
    \/ ServeClearCart(Buyer)
    \/ clearCartDone(Buyer)
    \/ RequestFails(Buyer)

SubtotalSpec == PricingInit /\ [][SubtotalNext]_vars

\* the fields of a user body: absent, taken by a demo user, or free
EmailInputs == {Missing, "john.doe@example.com", "a@example.com"}
UsernameInputs == {Missing, "johndoe", "alice"}
FirstNameInputs == {Missing, "Al"}
\* a preferences object: none or empty, or one that sets a preference
PreferencesInputs == {<<>>, [newsletter |-> TRUE]}

CreateUserBodies ==
    {[email |-> e, username |-> n, firstName |-> f, lastName |-> "Doe",
      preferences |-> pr] :
        e \in EmailInputs, n \in UsernameInputs, f \in FirstNameInputs,
        pr \in PreferencesInputs}
UpdateUserBodies ==
    {[email |-> e, username |-> n, firstName |-> f] :
        e \in EmailInputs, n \in UsernameInputs, f \in FirstNameInputs}
\* ids of the stored users, and one id that no user has
UserIdInputs == DOMAIN users \cup {"nobody"}

\* requests made to the user router
UserNext ==
    \/ \E b \in CreateUserBodies :
          CreateUser(b) /\ UNCHANGED <<carts, orders, clients>>
    \/ \E id \in UserIdInputs, b \in UpdateUserBodies :
          UpdateUser(id, b) /\ UNCHANGED <<carts, orders, clients>>
    \/ \E id \in UserIdInputs :
          DeleteUser(id) /\ UNCHANGED <<carts, orders, clients>>
    \/ \E id \in UserIdInputs, pr \in PreferencesInputs :
          UpdatePreferences(id, pr) /\ UNCHANGED <<carts, orders, clients>>

UserSpec == Init /\ [][UserNext]_vars

Next ==
    \/ CartNext \/ OrderNext \/ CheckoutNext \/ PricingNext \/ Tick
    \/ ListingNext \/ StatsNext \/ SyncNext \/ SubtotalNext \/ UserNext

Spec == Init /\ [][Next]_vars

---------------------------------------------------------------------------
(* Properties of the order lifecycle *)

\* the orders held anywhere in an order Map
OrdersIn(map) ==
    UNION {{map[u][i] : i \in 1..Len(map[u])} : u \in DOMAIN map}

\* place of a status in pending -> confirmed -> processing -> shipped ->
\* delivered, with cancelled after them all
Rank(status) ==
    CASE status = "pending" -> 1
      [] status = "confirmed" -> 2
      [] status = "processing" -> 3
      [] status = "shipped" -> 4
      [] status = "delivered" -> 5
      [] status = "cancelled" -> 6

\* C1: no step gives an order a status that comes earlier in
\* pending, confirmed, processing, shipped, delivered, cancelled than the
\* status it had.
C1_StatusOnlyMovesForward ==
    [][\A o \in OrdersIn(orders), o2 \in OrdersIn(orders') :
          o.id = o2.id => Rank(o2.status) >= Rank(o.status)]_vars

\* C2: no step takes an order that is shipped or delivered to cancelled,
\* whichever request the step handles.
C2_ShippedNeverCancelled ==
    [][\A o \in OrdersIn(orders), o2 \in OrdersIn(orders') :
          (o.id = o2.id /\ o.status \in {"shipped", "delivered"})
             => o2.status # "cancelled"]_vars

\* C3: once an order is cancelled, no step gives it another status.
C3_CancelledIsTerminal ==
    [][\A o \in OrdersIn(orders), o2 \in OrdersIn(orders') :
          (o.id = o2.id /\ o.status = "cancelled")
             => o2.status = "cancelled"]_vars

\* C4: a cancel request for a stored order is answered with an error and
\* leaves the whole order (status, updatedAt, cancellationReason) as it was
\* when the order is shipped or delivered; in every other status it succeeds
\* and the order's status is then cancelled.
C4_CancelByStatus ==
    [][route' = "PATCH /api/orders/:orderId/cancel" =>
         \A o \in OrdersIn(orders), r \in ReasonInputs :
            CancelOrder(o.id, r) =>
               IF o.status \in {"shipped", "delivered"}
               THEN /\ res'.success = FALSE
                    /\ res'.status = 400
                    /\ orders' = orders
               ELSE /\ res'.success = TRUE
                    /\ \E o2 \in OrdersIn(orders') :
                          o2.id = o.id /\ o2.status = "cancelled"]_vars

\* a cancel request has just been refused for an order that is shipped or
\* delivered
C4_Witness ==
    /\ route = "PATCH /api/orders/:orderId/cancel"
    /\ res.status = 400
    /\ \E o \in OrdersIn(orders) : o.status \in {"shipped", "delivered"}

\* C5: a status-update request whose status is missing or is none of the six
\* defined values is answered 400 and leaves every stored order as it was.
C5_InvalidStatusRejected ==
    [][route' = "PATCH /api/orders/:orderId/status" =>
         \/ /\ res'.success = FALSE
            /\ res'.status = 400
            /\ orders' = orders
         \/ \A id \in OrderIdInputs :
            \A s \in StatusInputs \ {"pending", "confirmed", "processing",
                                     "shipped", "delivered", "cancelled"} :
               ~UpdateStatus(id, s)]_vars

\* an unrecognized status has just been refused while an order is stored
C5_Witness ==
    /\ route = "PATCH /api/orders/:orderId/status"
    /\ res.status = 400
    /\ res.error # "Status is required"
    /\ OrdersIn(orders) # {}

---------------------------------------------------------------------------
(* Properties of the cart store *)

\* no two lines of the list carry the same productId
OneLinePerProduct(items) ==
    \A i, j \in 1..Len(items) :
        i # j => items[i].productId # items[j].productId

\* the items of a user's stored cart, none when there is no cart
StoredItems(map, userId) ==
    IF userId \in DOMAIN map THEN map[userId].items ELSE <<>>

RECURSIVE SumOfQuantities(_)
\* the arithmetic sum of the quantities of lines whose quantities are numbers
SumOfQuantities(items) ==
    IF items = <<>> THEN 0
    ELSE Head(items).quantity.v + SumOfQuantities(Tail(items))

\* C7: in every stored cart itemCount is a number, every line's quantity is
\* a number, and itemCount is the sum of the quantities.
C7_ItemCountIsSum ==
    \A u \in DOMAIN carts :
        /\ carts[u].itemCount.type = "number"
        /\ \A i \in 1..Len(carts[u].items) :
              carts[u].items[i].quantity.type = "number"
        /\ carts[u].itemCount.v = SumOfQuantities(carts[u].items)

\* C8: every line stored in a cart has a quantity that is an integer >= 1.
C8_QuantityAtLeastOne ==
    \A u \in DOMAIN carts : \A i \in 1..Len(carts[u].items) :
        /\ carts[u].items[i].quantity.type = "number"
        /\ carts[u].items[i].quantity.v >= 1

\* C9: an update-quantity request with a quantity below 1 is answered 400;
\* one that passes that test is answered 404 when the user has no cart or
\* the cart has no item of that id; and whenever the answer is an error the
\* cart Map is as it was.
C9_UpdateErrors ==
    [][route' = "PUT /api/cart/:userId/items/:itemId" =>
         /\ res'.status \in {400, 404}
              => res'.success = FALSE /\ carts' = carts
         /\ \A q \in {x \in QuantityInputs : x.type = "number" /\ x.v < 1} :
            \A u \in Users, i \in ItemIdInputs :
               UpdateItem(u, i, q) => res'.status = 400
         /\ \A q \in {x \in QuantityInputs : x.type = "number" /\ x.v >= 1} :
            \A u \in Users, i \in ItemIdInputs :
               (/\ \A k \in 1..Len(StoredItems(carts, u)) :
                      StoredItems(carts, u)[k].id # i
                /\ UpdateItem(u, i, q))
                  => res'.status = 404]_vars

\* an update has just been answered 404 for an id that the user's cart,
\* which holds other items, does not hold
C9_Witness ==
    /\ route = "PUT /api/cart/:userId/items/:itemId"
    /\ res.status = 404
    /\ res.error = "Item not found in cart"
    /\ \E u \in DOMAIN carts : Len(carts[u].items) >= 1

\* C10: removing an item id that the user's cart does not hold is answered
\* 404 and leaves the cart (its items, their order, itemCount) as it was.
C10_RemoveAbsentItem ==
    [][route' = "DELETE /api/cart/:userId/items/:itemId" =>
         \A u \in Users, i \in ItemIdInputs :
            (/\ \A k \in 1..Len(StoredItems(carts, u)) :
                   StoredItems(carts, u)[k].id # i
             /\ RemoveItem(u, i))
               => /\ res'.status = 404
                  /\ res'.success = FALSE
                  /\ carts' = carts]_vars

\* a remove has just been refused for an id missing from a cart that holds
\* items
C10_Witness ==
    /\ route = "DELETE /api/cart/:userId/items/:itemId"
    /\ res.status = 404
    /\ res.error = "Item not found in cart"
    /\ \E u \in DOMAIN carts : Len(carts[u].items) >= 1

---------------------------------------------------------------------------
(* Properties of user isolation *)

\* the cart a request for userId is answered from
CartOf(map, userId) ==
    IF userId \in DOMAIN map THEN map[userId] ELSE EmptyCart

\* the step leaves the entry of every user but userId as it was
OthersUnchanged(userId) ==
    \A b \in Users \ {userId} :
        /\ b \in DOMAIN carts' <=> b \in DOMAIN carts
        /\ b \in DOMAIN carts => carts'[b] = carts[b]

\* the cart in the response is userId's own, as it was or as it now is
AnswersFrom(userId) ==
    "data" \in DOMAIN res'
        => res'.data \in {CartOf(carts, userId), CartOf(carts', userId)}

\* C11: every cart operation (get, add, update, remove, clear) for user A
\* leaves the stored cart of every other user B as it was, and the cart it
\* answers with is A's own: a step that is not so for a user is no request
\* of that user.
C11_UserIsolation ==
    [][\A u \in Users :
          \/ OthersUnchanged(u) /\ AnswersFrom(u)
          \/ /\ route' = "GET /api/cart/:userId" => ~GetCart(u)
             /\ route' = "POST /api/cart/:userId/items" =>
                  \A p \in ProductIdInputs, q \in QuantityInputs :
                     ~AddItem(u, p, q)
             /\ route' = "PUT /api/cart/:userId/items/:itemId" =>
                  \A i \in ItemIdInputs, q \in QuantityInputs :
                     ~UpdateItem(u, i, q)
             /\ route' = "DELETE /api/cart/:userId/items/:itemId" =>
                  \A i \in ItemIdInputs : ~RemoveItem(u, i)
             /\ route' = "DELETE /api/cart/:userId" => ~ClearCart(u)]_vars

\* one user's cart has just been cleared while the other user's cart, which
\* holds a line, is still stored
C11_Witness ==
    /\ route = "DELETE /api/cart/:userId"
    /\ \E b \in DOMAIN carts : Len(carts[b].items) >= 1

---------------------------------------------------------------------------
(* Properties of overlapping requests *)

\* the quantity of productId in a list of lines whose quantities are plain
\* numbers, 0 when no line holds it
QuantityIn(items, productId) ==
    LET i == FindIndexByProductId(items, productId)
    IN  IF i < 0 THEN 0 ELSE items[i + 1].quantity

\* the quantity of productId in the cart stored for currentUser
StoredQuantity(productId) ==
    LET items == StoredItems(carts, currentUser)
        i == FindIndexByProductId(items, productId)
    IN  IF i < 0 THEN 0 ELSE items[i + 1].quantity.v

\* the quantity of productId that tab c has had answered with success: what
\* its items hold, and an answer it has not yet dispatched
AnsweredTo(c, productId) ==
    QuantityIn(clients[c].items, productId)
    + (IF /\ clients[c].pc = "addToCart"
          /\ clients[c].response # NoResponse
          /\ clients[c].response.success
          /\ clients[c].request.productId = productId
       THEN clients[c].request.quantity ELSE 0)

SumAnswered(cs, productId) ==
    SumOver([c \in Clients |-> AnsweredTo(c, productId)], cs)

\* both tabs have an add request out that the server has not handled
InFlightTogether ==
    \A c \in Clients :
        clients[c].pc = "addToCart" /\ clients[c].response = NoResponse

\* the stored cart holds less of a product than was answered with success
LostUpdate ==
    \E p \in Products : StoredQuantity(p) < SumAnswered(Clients, p)

---------------------------------------------------------------------------
(* Properties of the checkout *)

\* the (productId, quantity) pairs of the lines of a stored cart
CartLines(items) ==
    [i \in 1..Len(items) |->
        [productId |-> items[i].productId, quantity |-> items[i].quantity.v]]

\* the (productId, quantity) pairs of the items of an order
OrderLines(items) ==
    [i \in 1..Len(items) |->
        [productId |-> items[i].productId, quantity |-> items[i].quantity]]

\* C13: the items of an order that is being stored are the lines (productId
\* and quantity) that the Cart Store holds for that user at that moment.
C13_OrderIsCartSnapshot ==
    [][(route' = "POST /api/orders" /\ orders' # orders)
          => OrderLines(res'.data.items)
                = CartLines(StoredItems(carts, res'.data.userId))]_vars

\* C14: once a checkout has stored its order, the Cart Store's cart of that
\* user eventually holds no items.
C14_CheckoutClearsCart ==
    (\E pl \in OrderPlaces : OrderAt(pl).userId = currentUser)
        ~> (StoredItems(carts, currentUser) = <<>>)

---------------------------------------------------------------------------
(* Properties of the amounts of an order *)

\* C15: every stored order, whatever its status, has total = subtotal + tax
\* + shipping, tax = subtotal x 0.08, and shipping = 0 if subtotal > 50,
\* else 5.99.
C15_TotalIsSum ==
    \A o \in OrdersIn(orders) :
        /\ o.total = o.subtotal + o.tax + o.shipping
        /\ o.tax * 100 = o.subtotal * 8
        /\ o.shipping = IF o.subtotal > Cents(5000) THEN 0 ELSE Cents(599)

\* a cancelled order of 259.98 that ships free
C15_Witness ==
    \E o \in OrdersIn(orders) :
        /\ o.status = "cancelled"
        /\ o.subtotal = Cents(25998)
        /\ o.shipping = 0

RoundToCents(amount) == ((amount + 50) \div 100) * 100

\* C17: the tax stored in every order is subtotal x 0.08 rounded to whole
\* cents.
C17_TaxIsRounded ==
    \A o \in OrdersIn(orders) :
        o.tax = RoundToCents((o.subtotal * 8) \div 100)

\* what an order was priced at: its amounts and, line by line, name, price
\* and quantity
Priced(o) ==
    [subtotal |-> o.subtotal, tax |-> o.tax, shipping |-> o.shipping,
     total |-> o.total,
     items |-> [i \in 1..Len(o.items) |->
                  [name |-> o.items[i].name, price |-> o.items[i].price,
                   quantity |-> o.items[i].quantity]]]

\* C18: a stored order stays stored, and its subtotal, tax, shipping, total
\* and its items' name, price and quantity are after every step what they
\* were before it.
C18_PricesFrozen ==
    [][orders' # orders =>
         \A o \in OrdersIn(orders) :
            \E o2 \in OrdersIn(orders') :
               o2.id = o.id /\ Priced(o2) = Priced(o)]_vars

\* an order of 259.98 has just been marked shipped, which moved its
\* estimated delivery
C18_Witness ==
    /\ route = "PATCH /api/orders/:orderId/status"
    /\ \E o \in OrdersIn(orders) :
          /\ o.status = "shipped"
          /\ o.estimatedDelivery = o.updatedAt + DaysMs(3)
          /\ o.total = Cents(25998) + 207984

\* what the claim calls a request that lacks userId, items or
\* shippingAddress, or whose items is not a non-empty list
LacksRequired(body) ==
    \/ Falsy(body.userId)
    \/ Falsy(body.shippingAddress)
    \/ body.items.kind # "array"
    \/ Len(body.items.list) = 0

\* C19: an order-creation request that lacks userId, items or
\* shippingAddress, or whose items is not a non-empty list, is answered 400
\* and leaves the order Map as it was; every other request is answered 201
\* and adds exactly one order, under its userId.
C19_CreateOrderAnswers ==
    [][route' = "POST /api/orders" =>
         \A b \in OrderBodies :
            CreateOrder(b) =>
               IF LacksRequired(b)
               THEN res'.status = 400 /\ orders' = orders
               ELSE /\ res'.status = 201
                    /\ b.userId \in DOMAIN orders'
                    /\ Len(orders'[b.userId])
                         = 1 + (IF b.userId \in DOMAIN orders
                                THEN Len(orders[b.userId]) ELSE 0)
                    /\ \A u \in DOMAIN orders' \ {b.userId} :
                          u \in DOMAIN orders /\ orders'[u] = orders[u]]_vars

---------------------------------------------------------------------------
(* Properties of clearing a cart *)

\* C20: a clear is always answered with success and leaves the user without
\* a cart; a clear for a user with no cart (never created, or cleared
\* before) changes nothing in the cart Map; and a get for a user with no
\* cart, as after a clear, is answered with no items and itemCount 0.
C20_ClearIdempotent ==
    [][/\ route' = "DELETE /api/cart/:userId" =>
            \A u \in Users :
               ClearCart(u) =>
                  /\ res'.status = 200 /\ res'.success = TRUE
                  /\ u \notin DOMAIN carts'
                  /\ u \notin DOMAIN carts => carts' = carts
       /\ (route = "DELETE /api/cart/:userId"
             /\ route' = "DELETE /api/cart/:userId") =>
            \A u \in Users :
               (u \notin DOMAIN carts /\ ClearCart(u))
                  => carts' = carts /\ res' = res
       /\ route' = "GET /api/cart/:userId" =>
            \A u \in Users :
               (u \notin DOMAIN carts /\ GetCart(u)) =>
                  /\ res'.status = 200
                  /\ res'.data.items = <<>>
                  /\ res'.data.itemCount = Num(0)]_vars

\* a cart that held a line has just been cleared, and no cart is stored
C20_Witness ==
    /\ route = "DELETE /api/cart/:userId"
    /\ res.status = 200
    /\ nextId >= 1
    /\ carts = <<>>

---------------------------------------------------------------------------
(* Properties of reading a cart *)

\* C21: a get-cart request is answered with success and leaves the cart Map
\* as it was; for a user with no stored cart its answer holds no items and
\* itemCount 0; and an update or a remove that comes right after a get, for
\* a user with no stored cart, is still answered cart-not-found.
C21_GetCartReadsOnly ==
    [][/\ route' = "GET /api/cart/:userId" =>
            /\ res'.status = 200 /\ res'.success = TRUE
            /\ carts' = carts
            /\ \A u \in Users :
                  (u \notin DOMAIN carts /\ GetCart(u)) =>
                     /\ res'.data.items = <<>>
                     /\ res'.data.itemCount = Num(0)
       /\ (route = "GET /api/cart/:userId"
             /\ route' = "PUT /api/cart/:userId/items/:itemId") =>
            \A u \in Users \ DOMAIN carts :
            \A i \in ItemIdInputs :
            \A q \in {x \in QuantityInputs : ~JsLess(x, Num(1))} :
               UpdateItem(u, i, q) =>
                  res'.status = 404 /\ res'.error = "Cart not found"
       /\ (route = "GET /api/cart/:userId"
             /\ route' = "DELETE /api/cart/:userId/items/:itemId") =>
            \A u \in Users \ DOMAIN carts :
            \A i \in ItemIdInputs :
               RemoveItem(u, i) =>
                  res'.status = 404 /\ res'.error = "Cart not found"]_vars

\* after lines were added and the carts cleared, a get has just been
\* answered with the empty cart and no cart is stored
C21_Witness ==
    /\ route = "GET /api/cart/:userId"
    /\ res.status = 200
    /\ res.data = EmptyCart
    /\ nextId >= 1
    /\ carts = <<>>

---------------------------------------------------------------------------
(* Properties of the list of a user's orders *)

\* the elements of a list
Elements(list) == {list[i] : i \in 1..Len(list)}

\* C22: the list answered for a user holds exactly the stored orders whose
\* userId is that user, each once, newest createdAt first, whatever
\* creations, status updates and cancellations came before.
C22_ListIsUsersOrdersNewestFirst ==
    [][route' = "GET /api/orders/user/:userId" =>
         \A u \in Users :
            GetUserOrders(u) =>
               LET data == res'.data
                   mine == {o \in OrdersIn(orders) : o.userId = u}
               IN  /\ res'.status = 200
                   /\ Elements(data) = mine
                   /\ Len(data) = Cardinality(mine)
                   /\ res'.total = Len(data)
                   /\ \A i, j \in 1..Len(data) :
                         i < j => data[i].createdAt >= data[j].createdAt]_vars

\* a list of two orders created at different times, one of them since
\* shipped or cancelled, has been answered, newer order first
C22_Witness ==
    /\ route = "GET /api/orders/user/:userId"
    /\ Len(res.data) = 2
    /\ res.data[1].createdAt > res.data[2].createdAt
    /\ res.data[1].id > res.data[2].id
    /\ \E i \in 1..2 : res.data[i].status # "pending"

---------------------------------------------------------------------------
(* Properties of an order's timestamps *)

\* C23: the order answered by a successful creation has status pending,
\* updatedAt equal to createdAt, and estimatedDelivery equal to createdAt
\* plus 7 days.
C23_NewOrderTimes ==
    (route = "POST /api/orders" /\ res.status = 201) =>
        /\ res.data.status = "pending"
        /\ res.data.updatedAt = res.data.createdAt
        /\ res.data.estimatedDelivery = res.data.createdAt + DaysMs(7)

\* the estimatedDelivery of the stored order with that id
DeliveryOf(map, orderId) ==
    LET o == CHOOSE x \in OrdersIn(map) : x.id = orderId
    IN  o.estimatedDelivery

\* C24: a successful status update to shipped sets estimatedDelivery to the
\* order's new updatedAt plus 3 days; every other successful status update,
\* and a cancellation, leaves every order's estimatedDelivery as it was.
C24_DeliveryEstimate ==
    [][(res'.status = 200 /\ orders' # orders
          /\ route' \in {"PATCH /api/orders/:orderId/status",
                         "PATCH /api/orders/:orderId/cancel"}) =>
         IF route' = "PATCH /api/orders/:orderId/status"
              /\ res'.data.status = "shipped"
         THEN res'.data.estimatedDelivery = res'.data.updatedAt + DaysMs(3)
         ELSE \A o \in OrdersIn(orders) :
                 DeliveryOf(orders', o.id) = o.estimatedDelivery]_vars

---------------------------------------------------------------------------
(* Properties of the subtotal *)

\* the list price of each line's product times the line's quantity, summed
\* over the lines whose product is among `resolved`
ResolvableSum(items, resolved) ==
    LET RECURSIVE Sum(_)
        Sum(i) == IF i = 0 THEN 0
                  ELSE Sum(i - 1)
                       + (IF items[i].productId \in resolved
                          THEN catalog[items[i].productId].price
                               * items[i].quantity
                          ELSE 0)
    IN  Sum(Len(items))

\* the products of an order's lines that the cart page had the details of
ResolvedIn(o) ==
    {o.items[i].productId :
        i \in {j \in 1..Len(o.items) : o.items[j].name # "Unknown Product"}}

\* C25: the cart page's subtotal is the sum of price x quantity over the
\* lines whose product details it holds, a line without details adding
\* zero; the subtotal stored with an order made by the checkout is that
\* same sum, and such an order request is not answered with a failure.
C25_UnresolvedCountsZero ==
    /\ \A c \in Clients :
          calculateSubtotal(clients[c]) =
             ResolvableSum(clients[c].items, DOMAIN clients[c].products)
    /\ \A o \in OrdersIn(orders) :
          o.subtotal = ResolvableSum(o.items, ResolvedIn(o))
    /\ route = "POST /api/orders" => res.status = 201

\* the checkout has stored an order of two lines, one priced and one whose
\* product was not resolved, and the page still lacks a product's details
C25_Witness ==
    /\ \E o \in OrdersIn(orders) :
          /\ Len(o.items) = 2
          /\ Cardinality(ResolvedIn(o)) = 1
          /\ o.subtotal > 0
    /\ \E c \in Clients :
          /\ clients[c].items # <<>>
          /\ ProductIdsOf(clients[c].items) \ DOMAIN clients[c].products # {}

---------------------------------------------------------------------------
(* Properties of the client's copy of the cart *)

\* the lines of a tab, one by one, are the stored lines: same id, same
\* productId, same quantity
LinesMatch(items, stored) ==
    /\ Len(items) = Len(stored)
    /\ \A i \in 1..Len(items) :
          /\ IdOf(items[i]) = stored[i].id
          /\ items[i].productId = stored[i].productId
          /\ Num(items[i].quantity) = stored[i].quantity

\* C26: whenever the one tab that uses the cart is between two calls, all
\* of which were answered, its items are the stored cart's lines.
C26_ClientMirrorsServer ==
    clients[Buyer].pc = "idle" =>
        LinesMatch(clients[Buyer].items, StoredItems(carts, currentUser))

\* C27: in the reducer's state, itemCount is the sum of the quantities of
\* the items, after any ADD_ITEM, UPDATE_ITEM_QUANTITY, REMOVE_ITEM and
\* CLEAR_CART actions with quantities of at least 1, those for an id that
\* no line has included.
C27_ClientItemCountIsSum ==
    \A c \in Clients :
        "itemCount" \in DOMAIN clients[c] =>
            clients[c].itemCount = ReduceClientQuantity(clients[c].items, 0)

\* two lines are held, one with an id and one without, after additions
\* that brought a quantity above what one action adds
C27_Witness ==
    /\ "itemCount" \in DOMAIN clients[Buyer]
    /\ Len(clients[Buyer].items) = 2
    /\ \E i, j \in 1..2 :
          /\ IdOf(clients[Buyer].items[i]) = 0
          /\ IdOf(clients[Buyer].items[j]) # 0
    /\ clients[Buyer].itemCount > MaxQty + 1

---------------------------------------------------------------------------
(* Properties of the cart summary *)

\* C28: the itemCount answered by the summary request is the itemCount a
\* get-cart request for that user would answer in the same state: the
\* stored itemCount of the user's cart, 0 without a cart.
C28_SummaryCountsQuantities ==
    [][route' = "GET /api/cart/:userId/summary" =>
         \A u \in Users :
            CartSummary(u) =>
               res'.data.itemCount =
                  (IF u \in DOMAIN carts THEN carts[u].itemCount
                   ELSE EmptyCart.itemCount)]_vars

---------------------------------------------------------------------------
(* Properties of the order statistics *)

\* the ids of the orders held anywhere in an order Map
OrderIdsIn(map) == {o.id : o \in OrdersIn(map)}

\* the counts of a statusCounts object, added up
SumOfCounts(counts) ==
    LET RECURSIVE Sum(_)
        Sum(keys) == IF keys = {} THEN 0
                     ELSE LET k == CHOOSE x \in keys : TRUE
                          IN  counts[k].v + Sum(keys \ {k})
    IN  Sum(DOMAIN counts)

\* C29: after every step each stored order has one of the six statuses and
\* is stored under its own userId; no step removes an order, and the number
\* of stored orders grows by one with each successful creation and with
\* nothing else; so the statistics answer a totalOrders that is the number
\* of stored orders and statusCounts that are numbers adding up to it.
C29_StatsAddUp ==
    [][/\ \A u \in DOMAIN orders' : \A i \in 1..Len(orders'[u]) :
             /\ Includes(validStatuses, orders'[u][i].status)
             /\ orders'[u][i].userId = u
       /\ OrderIdsIn(orders) \subseteq OrderIdsIn(orders')
       /\ TotalOrders' = TotalOrders
                           + (IF route' = "POST /api/orders"
                                  /\ res'.status = 201 THEN 1 ELSE 0)
       /\ route' = "GET /api/orders/stats/overview" =>
             /\ res'.data.totalOrders = TotalOrders'
             /\ \A s \in DOMAIN res'.data.statusCounts :
                   res'.data.statusCounts[s].type = "number"
             /\ SumOfCounts(res'.data.statusCounts)
                   = res'.data.totalOrders]_vars

\* the statistics have been answered for two orders of two users, one
\* delivered and one cancelled
C29_Witness ==
    /\ route = "GET /api/orders/stats/overview"
    /\ res.data.totalOrders = 2
    /\ res.data.statusCounts["delivered"] = Num(1)
    /\ res.data.statusCounts["cancelled"] = Num(1)
    /\ Cardinality(DOMAIN orders) = 2

---------------------------------------------------------------------------
(* Properties of the user store *)

\* C30: after every step no two stored users have the same email or the
\* same username and every user is stored under its own id; and a user
\* request answered 400, 404 or 409 leaves the user Map as it was.
C30_UsersUnique ==
    [][/\ \A k \in DOMAIN users' : users'[k].id = k
       /\ \A k1, k2 \in DOMAIN users' :
             k1 # k2 => /\ users'[k1].email # users'[k2].email
                        /\ users'[k1].username # users'[k2].username
       /\ res'.status \in {400, 404, 409} => users' = users]_vars

\* three users are stored, a created one among them, one of the demo users
\* has taken a new email, and the last update was refused as a conflict
C30_Witness ==
    /\ route = "PUT /api/users/:userId"
    /\ res.status = 409
    /\ Cardinality(DOMAIN users) = 3
    /\ \E k \in DOMAIN users :
          k \in DOMAIN demoUsers /\ users[k].email # demoUsers[k].email

=============================================================================
